---- MODULE Spec2Model ----
(***************************************************************************)
(* routes64: a branching-narrative engine (Rust / Bevy).                   *)
(*                                                                         *)
(* The module models                                                       *)
(*   - src/src/scenario.rs : ScenarioData (load_from_json, validate,       *)
(*     get_node, get_node_or_fallback, transition, is_ending) and Current, *)
(*   - src/src/save.rs     : SaveData, SaveManager (save, load, delete,    *)
(*     has_save) over a small file system, and auto_save_system,           *)
(*   - src/src/app_impl.rs : the session (AppState, the intent events and  *)
(*     their handlers), frame by frame.                                    *)
(*                                                                         *)
(* Three specifications share the variables:                               *)
(*   SpecEngine : the pure functions of scenario.rs applied to inputs      *)
(*                drawn from bounded sets,                                 *)
(*   SpecSave   : sequences of SaveManager calls on one store,             *)
(*   Spec       : the running session.                                     *)
(*                                                                         *)
(* Conventions.  Rust indexes from 0, TLA+ sequences from 1: choice_index  *)
(* i of the code is element i + 1 of the sequence.  Strings are TLA+       *)
(* strings, String::len is Len (the ids of the model are ASCII).  usize is *)
(* modelled UsizeBits wide (the target's 64 bits do not fit TLC's          *)
(* integers); arithmetic that can leave the range is done by UsizeSub and  *)
(* UsizePow2, which panic when the build checks overflow (debug profile)   *)
(* and wrap when it does not (release profile).                            *)
(***************************************************************************)
EXTENDS Integers, Sequences, FiniteSets, TLC

VARIABLES
    overflow_checks, \* build profile: TRUE = debug (overflow panics), FALSE = release (wraps)
    entry,           \* which create_app runs: "main" (app.rs, called by main.rs) or
                     \* "lib" (app_impl.rs, exported by lib.rs)
    json_content,    \* the scenario definition handed to load_from_json
    loaded,          \* the outcome of load_from_json, NotLoaded before it ran
    call,            \* SpecEngine, SpecSave: the last call, its arguments and its result;
                     \* Spec: the handler that ran last in this frame, the events it
                     \* read and the warnings and errors it logged
    prev_call,       \* SpecSave: the call before the last one
    save_manager,    \* the SaveManager resource: [save_path, disabled]
    fs,              \* the file system: path |-> file content
    app_state,       \* State<AppState>
    next_state,      \* NextState<AppState>: the pending transition, if any
    current,         \* the Current resource, if inserted
    current_changed, \* Current was written since auto_save_system last ran (is_changed)
    events,          \* the unread events of each type
    ui,              \* the screens spawned: what each shows and which buttons it has
    readiness,       \* ResourceReadiness
    font_state,      \* LoadState of the font handle
    frame,           \* position in the frame: the systems of Update that ran so far
    panicked         \* a system panicked: the process is gone

engineVars == <<overflow_checks, entry, json_content, loaded>>
saveVars == <<save_manager, fs>>
callVars == <<call, prev_call>>
sessionVars == <<app_state, next_state, current, current_changed, events, ui, readiness,
                 font_state, frame, panicked>>
vars == <<overflow_checks, entry, json_content, loaded, call, prev_call, save_manager, fs,
          app_state, next_state, current, current_changed, events, ui, readiness,
          font_state, frame, panicked>>

(***************************************************************************)
(* Bounds of the model                                                     *)
(***************************************************************************)
MaxNodes == 2        \* nodes of a generated scenario definition
MaxDepth == 1        \* largest meta.depth of a generated scenario definition
MaxTrail == 4        \* the player stops choosing once the trail is this long

(***************************************************************************)
(* usize                                                                   *)
(***************************************************************************)
UsizeBits == 16
UsizeMax == 2^UsizeBits - 1

\* a - b on usize: [panic |-> TRUE] or [panic |-> FALSE, v |-> value]
UsizeSub(a, b, checks) ==
    IF a >= b THEN [panic |-> FALSE, v |-> a - b]
    ELSE IF checks THEN [panic |-> TRUE, v |-> 0]
    ELSE [panic |-> FALSE, v |-> a - b + UsizeMax + 1]

\* 2_usize.pow(d as u32)
UsizePow2(d, checks) ==
    IF d < UsizeBits THEN [panic |-> FALSE, v |-> 2^d]
    ELSE IF checks THEN [panic |-> TRUE, v |-> 0]
    ELSE [panic |-> FALSE, v |-> 0]

(***************************************************************************)
(* scenario.rs: the data model                                             *)
(***************************************************************************)
Ch(to) == [to |-> to]
Nd(id, text, choices, ending) ==
    [id |-> id, text |-> text, choices |-> choices, ending |-> ending]
Scn(depth, nodes) == [kind |-> "scenario", meta |-> [depth |-> depth], nodes |-> nodes]
Malformed == [kind |-> "malformed"]

\* Current::default
CurrentDefault == [id |-> "R", depth |-> 0, trail |-> <<"R">>]

(***************************************************************************)
(* scenario.rs: ScenarioData                                               *)
(***************************************************************************)
\* a faulty insert that keeps the node the map already has for the id
MapInsert_keeps_first(map, node) ==
    [k \in (DOMAIN map) \cup {node.id} |-> IF k \in DOMAIN map THEN map[k] ELSE node]

\* HashMap::insert: a later node with the same id replaces the earlier one
MapInsert(map, node) ==
    [k \in (DOMAIN map) \cup {node.id} |-> IF k = node.id THEN node ELSE map[k]]

\* the loop of load_from_json over scenario.nodes, in definition order
RECURSIVE InsertAll(_, _, _)
InsertAll(nodes, k, map) ==
    IF k > Len(nodes) THEN map
    ELSE InsertAll(nodes, k + 1, MapInsert(map, nodes[k]))

EmptyMap == [k \in {} |-> k]

BuildNodes(nodes) == InsertAll(nodes, 1, EmptyMap)

\* the (node, choice) positions of the definition list, in the order of the two loops
ChoicePositions(scenario) ==
    UNION {{<<n, c>> : c \in 1..Len(scenario.nodes[n].choices)} : n \in 1..Len(scenario.nodes)}

PosBefore(p, q) == p[1] < q[1] \/ (p[1] = q[1] /\ p[2] <= q[2])

\* a faulty validate_references that looks at the first choice of each node only
validate_references_first_choice_only(data) ==
    LET bad == {p \in ChoicePositions(data.scenario) :
                   /\ p[2] = 1
                   /\ data.scenario.nodes[p[1]].choices[p[2]].to \notin DOMAIN data.nodes}
    IN  IF bad = {} THEN [kind |-> "Ok"]
        ELSE LET first == CHOOSE p \in bad : \A q \in bad : PosBefore(p, q)
             IN  [kind |-> "Err", error |-> "InvalidReference",
                  node |-> data.scenario.nodes[first[1]].id,
                  to |-> data.scenario.nodes[first[1]].choices[first[2]].to]

\* validate_references: the first choice, in loop order, whose target is no key
validate_references(data) ==
    LET bad == {p \in ChoicePositions(data.scenario) :
                   data.scenario.nodes[p[1]].choices[p[2]].to \notin DOMAIN data.nodes}
    IN  IF bad = {} THEN [kind |-> "Ok"]
        ELSE LET first == CHOOSE p \in bad : \A q \in bad : PosBefore(p, q)
             IN  [kind |-> "Err", error |-> "InvalidReference",
                  node |-> data.scenario.nodes[first[1]].id,
                  to |-> data.scenario.nodes[first[1]].choices[first[2]].to]

\* the digit pushed for one bit: ((i >> bit) & 1).to_string()
BitDigit(i, bit) == IF (i \div (2^bit)) % 2 = 1 THEN "1" ELSE "0"

\* the inner loop of generate_ending_ids: bits depth-1 down to 0 appended to id
RECURSIVE PushBits(_, _, _)
PushBits(id, i, bit) ==
    IF bit < 0 THEN id ELSE PushBits(id \o BitDigit(i, bit), i, bit - 1)

\* generate_ending_ids: a panic of the power, or the ids for i = 0 .. 2^depth - 1 in order
generate_ending_ids(data, checks) ==
    LET depth == data.scenario.meta.depth
        n == UsizePow2(depth, checks)
    IN  IF n.panic THEN [panic |-> TRUE, ids |-> <<>>]
        ELSE [panic |-> FALSE, ids |-> [k \in 1..n.v |-> PushBits("R", k - 1, depth - 1)]]

\* a faulty validate_endings that counts every canonical leaf that is defined,
\* tagged or not
validate_endings_counts_untagged(data, checks) ==
    LET expected == UsizePow2(data.scenario.meta.depth, checks)
        gen == generate_ending_ids(data, checks)
        ok(id) == id \in DOMAIN data.nodes
        found == {k \in 1..Len(gen.ids) : ok(gen.ids[k])}
        missing == SelectSeq(gen.ids, LAMBDA id : ~ok(id))
    IN  IF expected.panic \/ gen.panic THEN [panic |-> TRUE]
        ELSE [panic |-> FALSE, expected |-> expected.v, actual |-> Cardinality(found),
              missing |-> missing, warned |-> Cardinality(found) # expected.v]

\* validate_endings: never an error; what it counts and whether it warns
validate_endings(data, checks) ==
    LET expected == UsizePow2(data.scenario.meta.depth, checks)
        gen == generate_ending_ids(data, checks)
        ok(id) == id \in DOMAIN data.nodes /\ data.nodes[id].ending
        found == {k \in 1..Len(gen.ids) : ok(gen.ids[k])}
        missing == SelectSeq(gen.ids, LAMBDA id : ~ok(id))
    IN  IF expected.panic \/ gen.panic THEN [panic |-> TRUE]
        ELSE [panic |-> FALSE, expected |-> expected.v, actual |-> Cardinality(found),
              missing |-> missing, warned |-> Cardinality(found) # expected.v]

\* a faulty validate for which a missing ending is an error
validate_fatal_endings(data, checks) ==
    LET refs == validate_references(data)
        ends == validate_endings(data, checks)
    IN  IF refs.kind = "Err" THEN refs
        ELSE IF ends.panic THEN [kind |-> "Panic"]
        ELSE IF ends.warned THEN [kind |-> "Err", error |-> "MissingEndings"]
        ELSE [kind |-> "Ok"]

\* validate: references (fatal), then endings (warning only)
validate(data, checks) ==
    LET refs == validate_references(data)
    IN  IF refs.kind = "Err" THEN refs
        ELSE IF validate_endings(data, checks).panic THEN [kind |-> "Panic"]
        ELSE [kind |-> "Ok"]

\* load_from_json: parse, build the map, validate; all or nothing
load_from_json(json, checks) ==
    IF json.kind = "malformed" THEN [kind |-> "Err", error |-> "Parse"]
    ELSE LET data == [scenario |-> json, nodes |-> BuildNodes(json.nodes)]
             v == validate(data, checks)
         IN  IF v.kind = "Ok" THEN [kind |-> "Ok", value |-> data] ELSE v

\* a faulty get_node that answers with the root when the id is missing
get_node_root_default(data, id) ==
    IF id \in DOMAIN data.nodes THEN [some |-> TRUE, node |-> data.nodes[id]]
    ELSE IF "R" \in DOMAIN data.nodes THEN [some |-> TRUE, node |-> data.nodes["R"]]
    ELSE [some |-> FALSE]

\* get_node: Option<&Node>
get_node(data, id) ==
    IF id \in DOMAIN data.nodes THEN [some |-> TRUE, node |-> data.nodes[id]]
    ELSE [some |-> FALSE]

\* a faulty fallback that skips the root and takes the first node of the list
get_node_or_fallback_skips_root(data, id) ==
    IF id \in DOMAIN data.nodes THEN [kind |-> "Ok", node |-> data.nodes[id]]
    ELSE IF Len(data.scenario.nodes) > 0 THEN [kind |-> "Ok", node |-> data.scenario.nodes[1]]
    ELSE [kind |-> "Panic"]

\* get_node_or_fallback: exact, else "R", else the first of the list, else panic
get_node_or_fallback(data, id) ==
    IF id \in DOMAIN data.nodes THEN [kind |-> "Ok", node |-> data.nodes[id]]
    ELSE IF "R" \in DOMAIN data.nodes THEN [kind |-> "Ok", node |-> data.nodes["R"]]
    ELSE IF Len(data.scenario.nodes) > 0 THEN [kind |-> "Ok", node |-> data.scenario.nodes[1]]
    ELSE [kind |-> "Panic"]

\* a faulty transition that takes the last choice for an index beyond the choices
transition_clamped_index(data, cur, choice_index, checks) ==
    LET got == get_node(data, cur.id)
    IN  IF ~got.some THEN [kind |-> "Err", error |-> "NodeNotFound"]
        ELSE IF Len(got.node.choices) = 0
        THEN [kind |-> "Err", error |-> "InvalidChoiceIndex"]
        ELSE LET k == IF choice_index >= Len(got.node.choices)
                      THEN Len(got.node.choices) ELSE choice_index + 1
                 next_id == got.node.choices[k].to
                 new_depth == UsizeSub(Len(next_id), 1, checks)
             IN  IF new_depth.panic THEN [kind |-> "Panic"]
                 ELSE [kind |-> "Ok",
                       value |-> [id |-> next_id, depth |-> new_depth.v,
                                  trail |-> Append(cur.trail, next_id)]]

\* a faulty transition that puts the new id in the place of the last element of
\* the trail
transition_replaces_last(data, cur, choice_index, checks) ==
    LET got == get_node(data, cur.id)
    IN  IF ~got.some THEN [kind |-> "Err", error |-> "NodeNotFound"]
        ELSE IF choice_index >= Len(got.node.choices)
        THEN [kind |-> "Err", error |-> "InvalidChoiceIndex"]
        ELSE LET next_id == got.node.choices[choice_index + 1].to
                 new_depth == UsizeSub(Len(next_id), 1, checks)
             IN  IF new_depth.panic THEN [kind |-> "Panic"]
                 ELSE [kind |-> "Ok",
                       value |-> [id |-> next_id, depth |-> new_depth.v,
                                  trail |-> IF Len(cur.trail) > 1
                                            THEN Append(SubSeq(cur.trail, 1, Len(cur.trail) - 1),
                                                        next_id)
                                            ELSE Append(cur.trail, next_id)]]

\* a faulty transition that derives the new id from the current id and the
\* choice index ("1" for the first choice, "0" for the second), not from the
\* target of the choice
transition_derives_id(data, cur, choice_index, checks) ==
    LET got == get_node(data, cur.id)
    IN  IF ~got.some THEN [kind |-> "Err", error |-> "NodeNotFound"]
        ELSE IF choice_index >= Len(got.node.choices)
        THEN [kind |-> "Err", error |-> "InvalidChoiceIndex"]
        ELSE LET next_id == cur.id \o (IF choice_index = 0 THEN "1" ELSE "0")
                 new_depth == UsizeSub(Len(next_id), 1, checks)
             IN  IF new_depth.panic THEN [kind |-> "Panic"]
                 ELSE [kind |-> "Ok",
                       value |-> [id |-> next_id, depth |-> new_depth.v,
                                  trail |-> Append(cur.trail, next_id)]]

\* a faulty transition that leaves the depth as it was
transition_keeps_depth(data, cur, choice_index, checks) ==
    LET got == get_node(data, cur.id)
    IN  IF ~got.some THEN [kind |-> "Err", error |-> "NodeNotFound"]
        ELSE IF choice_index >= Len(got.node.choices)
        THEN [kind |-> "Err", error |-> "InvalidChoiceIndex"]
        ELSE LET next_id == got.node.choices[choice_index + 1].to
             IN  [kind |-> "Ok",
                  value |-> [id |-> next_id, depth |-> cur.depth,
                             trail |-> Append(cur.trail, next_id)]]

\* transition: Result<Current>, or a panic of next_id.len() - 1
transition(data, cur, choice_index, checks) ==
    LET got == get_node(data, cur.id)
    IN  IF ~got.some THEN [kind |-> "Err", error |-> "NodeNotFound"]
        ELSE IF choice_index >= Len(got.node.choices)
        THEN [kind |-> "Err", error |-> "InvalidChoiceIndex"]
        ELSE LET next_id == got.node.choices[choice_index + 1].to
                 new_depth == UsizeSub(Len(next_id), 1, checks)
             IN  IF new_depth.panic THEN [kind |-> "Panic"]
                 ELSE [kind |-> "Ok",
                       value |-> [id |-> next_id, depth |-> new_depth.v,
                                  trail |-> Append(cur.trail, next_id)]]

\* a faulty is_ending that does not compare the depth
is_ending_any_depth(data, cur) ==
    LET got == get_node(data, cur.id)
    IN  IF got.some THEN got.node.ending ELSE FALSE

\* is_ending
is_ending(data, cur) ==
    IF cur.depth = data.scenario.meta.depth
    THEN LET got == get_node(data, cur.id)
         IN  IF got.some THEN got.node.ending ELSE FALSE
    ELSE FALSE

(***************************************************************************)
(* save.rs: the save file as JSON text                                     *)
(*                                                                         *)
(* A file is absent, or text that is no JSON document (garbage: truncated, *)
(* hand-edited), or a JSON object: a function from its keys to values,     *)
(* each a number, a string or an array.                                    *)
(***************************************************************************)
JNum(n) == [t |-> "num", n |-> n]
JStr(str) == [t |-> "str", s |-> str]
JArr(seq) == [t |-> "arr", a |-> seq]

Absent == [kind |-> "absent"]
Garbage == [kind |-> "garbage"]
JObject(fields) == [kind |-> "object", fields |-> fields]

U8Max == 255

\* serde_json::to_string_pretty(&SaveData): the derive(Serialize) of SaveData
serialize(save_data) ==
    JObject([k \in {"version", "current", "depth", "trail"} |->
        CASE k = "version" -> JNum(save_data.version)
          [] k = "current" -> JStr(save_data.current)
          [] k = "depth" -> JNum(save_data.depth)
          [] k = "trail" ->
                JArr([i \in 1..Len(save_data.trail) |-> JStr(save_data.trail[i])])])

\* serde_json::from_str::<SaveData>: the derive(Deserialize) of SaveData.  Every
\* field is required and typed (version: u8, current: String, depth: usize,
\* trail: Vec<String>); unknown keys are ignored.
deserialize(text) ==
    IF text.kind # "object" THEN [kind |-> "Err"]
    ELSE LET f == text.fields
             isU(key, max) == f[key].t = "num" /\ f[key].n >= 0 /\ f[key].n <= max
         IN  IF /\ {"version", "current", "depth", "trail"} \subseteq DOMAIN f
                /\ isU("version", U8Max)
                /\ f["current"].t = "str"
                /\ isU("depth", UsizeMax)
                /\ f["trail"].t = "arr"
                /\ \A i \in 1..Len(f["trail"].a) : f["trail"].a[i].t = "str"
             THEN [kind |-> "Ok",
                   value |-> [version |-> f["version"].n,
                              current |-> f["current"].s,
                              depth |-> f["depth"].n,
                              trail |-> [i \in 1..Len(f["trail"].a) |-> f["trail"].a[i].s]]]
             ELSE [kind |-> "Err"]

(***************************************************************************)
(* save.rs: SaveManager                                                    *)
(***************************************************************************)
\* data_local_dir/save.json
SavePath == "data/save.json"

\* SaveManager::new when the data directory can be determined and created
NewSaveManager == [save_path |-> SavePath, disabled |-> FALSE]
\* SaveManager::new_disabled: the empty path
new_disabled == [save_path |-> "", disabled |-> TRUE]

\* Path::exists: the empty path names no file
exists(files, path) == path \in DOMAIN files /\ files[path].kind # "absent"

\* how fs::write / fs::remove_file can end
IoOutcomes == {"done", "failed_untouched", "failed_truncated"}

\* fs::write(path, text): creates or truncates the file, then writes all of it.
\* A failure leaves the file as it was or truncated.
fs_write(files, path, text, io) ==
    IF path \notin DOMAIN files THEN [ok |-> FALSE, files |-> files]
    ELSE IF io = "done" THEN [ok |-> TRUE, files |-> [files EXCEPT ![path] = text]]
    ELSE IF io = "failed_truncated"
    THEN [ok |-> FALSE, files |-> [files EXCEPT ![path] = Garbage]]
    ELSE [ok |-> FALSE, files |-> files]

\* a faulty save that writes the length of the trail as the depth
save_depth_from_trail(mgr, cur, files, io) ==
    IF mgr.disabled THEN [result |-> [kind |-> "Ok"], files |-> files]
    ELSE LET save_data == [version |-> 1, current |-> cur.id,
                           depth |-> Len(cur.trail), trail |-> cur.trail]
             w == fs_write(files, mgr.save_path, serialize(save_data), io)
         IN  IF w.ok THEN [result |-> [kind |-> "Ok"], files |-> w.files]
             ELSE [result |-> [kind |-> "Err", error |-> "SaveFailed"], files |-> w.files]

\* a faulty save without the early return of a disabled store
save_without_disabled_guard(mgr, cur, files, io) ==
    LET save_data == [version |-> 1, current |-> cur.id,
                      depth |-> cur.depth, trail |-> cur.trail]
        w == fs_write(files, mgr.save_path, serialize(save_data), io)
    IN  IF w.ok THEN [result |-> [kind |-> "Ok"], files |-> w.files]
        ELSE [result |-> [kind |-> "Err", error |-> "SaveFailed"], files |-> w.files]

\* SaveManager::save: [result, files]
save(mgr, cur, files, io) ==
    IF mgr.disabled THEN [result |-> [kind |-> "Ok"], files |-> files]
    ELSE LET save_data == [version |-> 1, current |-> cur.id,
                           depth |-> cur.depth, trail |-> cur.trail]
             w == fs_write(files, mgr.save_path, serialize(save_data), io)
         IN  IF w.ok THEN [result |-> [kind |-> "Ok"], files |-> w.files]
             ELSE [result |-> [kind |-> "Err", error |-> "SaveFailed"], files |-> w.files]

NoSave == [kind |-> "Ok", some |-> FALSE]

\* SaveManager::load: Result<Option<Current>>
load(mgr, files) ==
    IF mgr.disabled THEN NoSave
    ELSE IF ~exists(files, mgr.save_path) THEN NoSave
    ELSE LET parsed == deserialize(files[mgr.save_path])
         IN  IF parsed.kind = "Err" THEN [kind |-> "Err", error |-> "LoadFailed"]
             ELSE IF parsed.value.version # 1 THEN NoSave
             ELSE [kind |-> "Ok", some |-> TRUE,
                   value |-> [id |-> parsed.value.current,
                              depth |-> parsed.value.depth,
                              trail |-> parsed.value.trail]]

\* a faulty delete that reports success and leaves the file
delete_keeps_file(mgr, files, io) ==
    IF exists(files, mgr.save_path) /\ io # "done"
    THEN [result |-> [kind |-> "Err", error |-> "DeleteFailed"], files |-> files]
    ELSE [result |-> [kind |-> "Ok"], files |-> files]

\* SaveManager::delete: [result, files]
delete(mgr, files, io) ==
    IF exists(files, mgr.save_path)
    THEN IF io = "done"
         THEN [result |-> [kind |-> "Ok"], files |-> [files EXCEPT ![mgr.save_path] = Absent]]
         ELSE [result |-> [kind |-> "Err", error |-> "DeleteFailed"], files |-> files]
    ELSE [result |-> [kind |-> "Ok"], files |-> files]

\* a faulty has_save that is true only for a record that load returns
has_save_needs_loadable(mgr, files) ==
    LET got == load(mgr, files)
    IN  IF mgr.disabled THEN FALSE ELSE got.kind = "Ok" /\ got.some

\* SaveManager::has_save
has_save(mgr, files) ==
    IF mgr.disabled THEN FALSE ELSE exists(files, mgr.save_path)

(***************************************************************************)
(* states.rs, app_impl.rs: the state of the session                        *)
(***************************************************************************)
None == [some |-> FALSE]
Some(x) == [some |-> TRUE, value |-> x]

NoEvents == [begin_new |-> 0, continue |-> 0, make_choice |-> <<>>, restart |-> 0]
NoUi == [title |-> None, playing |-> None, ending |-> None]

\* the session variables before the app is started: AppState::default is Boot
BootState ==
    /\ app_state = "Boot"
    /\ next_state = None
    /\ current = None
    /\ current_changed = FALSE
    /\ events = NoEvents
    /\ ui = NoUi
    /\ readiness = [scenario_loaded |-> FALSE, font_loaded |-> FALSE]
    /\ font_state = "Loading"
    /\ frame = [phase |-> "StateTransition", ran |-> {}]
    /\ panicked = FALSE

\* SpecEngine and SpecSave call the functions directly: no app runs
NoSession == BootState

(***************************************************************************)
(* Inputs: scenario definitions                                            *)
(***************************************************************************)
\* sequences over S of length 0..n
RECURSIVE SeqsUpTo(_, _)
SeqsUpTo(S, n) ==
    IF n = 0 THEN {<<>>}
    ELSE LET shorter == SeqsUpTo(S, n - 1)
         IN  shorter \cup {Append(s, x) : s \in {t \in shorter : Len(t) = n - 1}, x \in S}

\* ids of generated definitions: the root and the empty string (a definition
\* is free to use any string as an id); the fixed scenarios below add the tree ids
IdPool == {"", "R"}
\* numbers of choices of a generated node: a leaf, the single choice of
\* test_invalid_reference, the two choices of an interior node
ChoiceCounts == {0, 1, 2}

GenChoices == {cs \in SeqsUpTo({Ch(t) : t \in IdPool}, 2) : Len(cs) \in ChoiceCounts}
GenNodes == {Nd(id, "t", cs, e) : id \in IdPool, cs \in GenChoices, e \in BOOLEAN}
GenScenarios == {Scn(d, ns) : d \in 0..MaxDepth, ns \in SeqsUpTo(GenNodes, MaxNodes)}

\* sample_scenario_json of the tests of scenario.rs: the full tree of depth 2
SampleScenario ==
    Scn(2, << Nd("R", "rain", <<Ch("R1"), Ch("R0")>>, FALSE),
              Nd("R1", "key", <<Ch("R11"), Ch("R10")>>, FALSE),
              Nd("R0", "stay", <<Ch("R01"), Ch("R00")>>, FALSE),
              Nd("R11", "umbrella", <<>>, TRUE),
              Nd("R10", "run", <<>>, TRUE),
              Nd("R01", "read", <<>>, TRUE),
              Nd("R00", "sleep", <<>>, TRUE) >>)

\* create_test_scenario of tests/scenario_fallback_ut.rs: depth 2, no ending tags
FallbackScenario ==
    Scn(2, << Nd("R", "Root node text", <<Ch("R1"), Ch("R0")>>, FALSE),
              Nd("R1", "Node R1 text", <<>>, FALSE),
              Nd("R0", "Node R0 text", <<>>, FALSE) >>)

\* test_invalid_reference
InvalidReferenceScenario == Scn(1, << Nd("R", "test", <<Ch("INVALID")>>, FALSE) >>)

\* the sample tree with one leaf missing: one dangling target among valid ones
DanglingLeafScenario ==
    Scn(2, << Nd("R", "rain", <<Ch("R1"), Ch("R0")>>, FALSE),
              Nd("R1", "key", <<Ch("R11"), Ch("R10")>>, FALSE),
              Nd("R0", "stay", <<>>, FALSE),
              Nd("R11", "umbrella", <<>>, TRUE) >>)

\* the tree of depth 1 with the leaf R1 missing and a nameless ending in its place
EmptyIdScenario ==
    Scn(1, << Nd("R", "root", <<Ch(""), Ch("R0")>>, FALSE),
              Nd("", "nameless", <<>>, TRUE),
              Nd("R0", "leaf", <<>>, TRUE) >>)

FixedScenarios ==
    {SampleScenario, FallbackScenario, InvalidReferenceScenario, DanglingLeafScenario,
     EmptyIdScenario}

Definitions == {Malformed} \cup FixedScenarios \cup GenScenarios

(***************************************************************************)
(* Inputs: traversal states and choice indexes given to the pure functions *)
(***************************************************************************)
ArgTrails == {<<"R">>, <<"R", "R1">>}
\* transition reads id and trail; two depths show that it ignores the argument's.
\* "X" is an id no definition uses.
TransitionArgs == [id : IdPool \cup {"R1", "X"}, depth : {0, 1}, trail : ArgTrails]
\* is_ending reads id and depth
IsEndingArgs == [id : IdPool \cup {"R1", "R11", "X"}, depth : {0, 1, 2}, trail : {<<"R">>}]
\* 5 is the index of the example of an index beyond two choices
ArgIndexes == {0, 1, 2, 5}

(***************************************************************************)
(* SpecEngine: the pure functions applied to the inputs                    *)
(***************************************************************************)
NotLoaded == [kind |-> "NotLoaded"]
NoCall == [op |-> "none"]

InitEngine ==
    /\ overflow_checks \in BOOLEAN
    /\ entry = "lib"
    /\ json_content \in Definitions
    /\ loaded = NotLoaded
    /\ call = NoCall
    /\ prev_call = NoCall
    /\ save_manager = new_disabled
    /\ fs = [p \in {SavePath} |-> Absent]
    /\ NoSession

\* ScenarioData::load_from_json(json_content)
Load ==
    /\ loaded = NotLoaded
    /\ loaded' = load_from_json(json_content, overflow_checks)
    /\ UNCHANGED <<overflow_checks, entry, json_content, call, prev_call, saveVars,
                   sessionVars>>

\* scenario_data.transition(&current, choice_index) on a loaded scenario
CallTransition ==
    /\ loaded.kind = "Ok"
    /\ call = NoCall
    /\ \E cur \in TransitionArgs, i \in ArgIndexes :
          call' = [op |-> "transition", current |-> cur, choice_index |-> i,
                   result |-> transition(loaded.value, cur, i, overflow_checks)]
    /\ UNCHANGED <<engineVars, prev_call, saveVars, sessionVars>>

\* scenario_data.is_ending(&current) on a loaded scenario
CallIsEnding ==
    /\ loaded.kind = "Ok"
    /\ call = NoCall
    /\ \E cur \in IsEndingArgs :
          call' = [op |-> "is_ending", current |-> cur,
                   result |-> is_ending(loaded.value, cur)]
    /\ UNCHANGED <<engineVars, prev_call, saveVars, sessionVars>>

\* the ids looked up: the root, one that the sample trees define, the empty id,
\* one that no definition uses
LookupIds == IdPool \cup {"R1", "X"}

\* scenario_data.get_node_or_fallback(id) on a loaded scenario
CallGetNodeOrFallback ==
    /\ loaded.kind = "Ok"
    /\ call = NoCall
    /\ \E id \in LookupIds :
          call' = [op |-> "get_node_or_fallback", id |-> id,
                   result |-> get_node_or_fallback(loaded.value, id)]
    /\ UNCHANGED <<engineVars, prev_call, saveVars, sessionVars>>

\* validate_endings on a loaded scenario, as validate calls it: the ids it
\* enumerates, what it counts and whether it warns
CallValidateEndings ==
    /\ loaded.kind = "Ok"
    /\ call = NoCall
    /\ call' = [op |-> "validate_endings",
                ids |-> generate_ending_ids(loaded.value, overflow_checks).ids,
                result |-> validate_endings(loaded.value, overflow_checks)]
    /\ UNCHANGED <<engineVars, prev_call, saveVars, sessionVars>>

NextEngine ==
    Load \/ CallTransition \/ CallIsEnding \/ CallGetNodeOrFallback \/ CallValidateEndings

SpecEngine == InitEngine /\ [][NextEngine]_vars

(***************************************************************************)
(* Inputs: save files found on disk and traversal states to save           *)
(***************************************************************************)
SaveObject(version, cur, depth, trail) ==
    JObject([k \in {"version", "current", "depth", "trail"} |->
        CASE k = "version" -> version
          [] k = "current" -> cur
          [] k = "depth" -> depth
          [] k = "trail" -> trail])

\* version fields: the supported 1, other u8 values (255 is the one of
\* test_version_mismatch), an integer beyond u8, a string
VersionFields == {JNum(0), JNum(1), JNum(2), JNum(255), JNum(256), JStr("1")}

\* records whose other fields have the types of SaveData
TypedFiles ==
    {SaveObject(v, JStr(c), JNum(d), JArr(t)) :
        v \in VersionFields, c \in {"R1", "X"}, d \in {0, 1},
        t \in {<<>>, <<JStr("R"), JStr("R1")>>}}

\* records with one other field of another type or missing, and one with an extra key
IllTypedFiles ==
    UNION {{ SaveObject(v, JNum(3), JNum(1), JArr(<<JStr("R")>>)),
             SaveObject(v, JStr("R1"), JNum(-1), JArr(<<JStr("R")>>)),
             SaveObject(v, JStr("R1"), JStr("1"), JArr(<<JStr("R")>>)),
             SaveObject(v, JStr("R1"), JNum(1), JArr(<<JNum(0)>>)),
             JObject([k \in {"version", "current", "depth"} |->
                 IF k = "version" THEN v ELSE IF k = "current" THEN JStr("R1") ELSE JNum(1)]),
             JObject([k \in {"version", "current", "depth", "trail", "slot"} |->
                 IF k = "version" THEN v ELSE IF k = "current" THEN JStr("R1")
                 ELSE IF k = "depth" THEN JNum(1) ELSE IF k = "trail" THEN JArr(<<JStr("R")>>)
                 ELSE JNum(7)]) } : v \in {JNum(1), JNum(2)}}

FilesOnDisk == {Absent, Garbage} \cup TypedFiles \cup IllTypedFiles

\* traversal states handed to save
SaveArgs == [id : {"", "R1"}, depth : {0, 2}, trail : {<<>>, <<"R", "R1">>, <<"R1", "R">>}]

(***************************************************************************)
(* SpecSave: sequences of SaveManager calls on one store                   *)
(***************************************************************************)
InitSave ==
    /\ overflow_checks = FALSE
    /\ entry = "lib"
    /\ json_content = Malformed
    /\ loaded = NotLoaded
    /\ call = NoCall
    /\ prev_call = NoCall
    /\ save_manager \in {NewSaveManager, new_disabled}
    /\ fs \in [{SavePath} -> FilesOnDisk]
    /\ NoSession

\* save_manager.save(&current)
CallSave ==
    \E cur \in SaveArgs, io \in IoOutcomes :
        LET r == save(save_manager, cur, fs, io)
        IN  /\ call' = [op |-> "save", current |-> cur, result |-> r.result]
            /\ fs' = r.files
            /\ prev_call' = call
            /\ UNCHANGED <<engineVars, save_manager, sessionVars>>

\* save_manager.load()
CallLoad ==
    /\ call' = [op |-> "load", result |-> load(save_manager, fs)]
    /\ prev_call' = call
    /\ UNCHANGED <<engineVars, save_manager, fs, sessionVars>>

\* save_manager.has_save()
CallHasSave ==
    /\ call' = [op |-> "has_save", result |-> has_save(save_manager, fs)]
    /\ prev_call' = call
    /\ UNCHANGED <<engineVars, save_manager, fs, sessionVars>>

\* save_manager.delete()
CallDelete ==
    \E io \in {"done", "failed_untouched"} :
        LET r == delete(save_manager, fs, io)
        IN  /\ call' = [op |-> "delete", result |-> r.result]
            /\ fs' = r.files
            /\ prev_call' = call
            /\ UNCHANGED <<engineVars, save_manager, sessionVars>>

NextSave == CallSave \/ CallLoad \/ CallHasSave \/ CallDelete

SpecSave == InitSave /\ [][NextSave]_vars

(***************************************************************************)
(* Spec: the running session (create_app of app_impl.rs)                   *)
(*                                                                         *)
(* A frame is the StateTransition schedule, then the systems of Update,    *)
(* each once, in any order (the tuple of add_systems orders nothing), then *)
(* the deferred commands.  A system whose run condition is false does not  *)
(* run.  Each event type has one reader, which runs in every frame in      *)
(* which events of its type can exist, so an event is read in the frame it *)
(* is sent or in the next one and is never dropped unread: the model keeps *)
(* the unread events only.                                                 *)
(***************************************************************************)
Unreadable == [kind |-> "unreadable"]

\* an ending-tagged node at full depth that still has choices
EndingWithChoicesScenario ==
    Scn(1, << Nd("R", "root", <<Ch("R0"), Ch("R1")>>, FALSE),
              Nd("R0", "ending, not a leaf", <<Ch("R"), Ch("R1")>>, TRUE),
              Nd("R1", "leaf", <<>>, TRUE) >>)

\* no nodes at all: no reference to validate
EmptyScenario == Scn(0, <<>>)

SessionScenarios ==
    {Unreadable, Malformed, InvalidReferenceScenario, EmptyScenario, SampleScenario,
     FallbackScenario, EmptyIdScenario, EndingWithChoicesScenario}

\* save.json as a session finds it at startup: none, unparsable, written by an
\* earlier session of the sample tree, edited by hand, or of another version
SessionFiles ==
    { Absent, Garbage,
      SaveObject(JNum(1), JStr("R1"), JNum(1), JArr(<<JStr("R"), JStr("R1")>>)),
      SaveObject(JNum(1), JStr("R11"), JNum(2), JArr(<<JStr("R"), JStr("R1"), JStr("R11")>>)),
      SaveObject(JNum(1), JStr("R1"), JNum(0), JArr(<<JStr("R")>>)),
      SaveObject(JNum(1), JStr("X"), JNum(1), JArr(<<JStr("R"), JStr("X")>>)),
      SaveObject(JNum(2), JStr("R1"), JNum(1), JArr(<<JStr("R"), JStr("R1")>>)) }

\* a file system in which no data directory can be determined or created: it
\* has no path at all
NoDataDir == [p \in {} |-> Absent]

\* SaveManager::new: Err when the data directory cannot be determined or created
SaveManagerNew(files) ==
    IF SavePath \in DOMAIN files THEN [kind |-> "Ok", value |-> NewSaveManager]
    ELSE [kind |-> "Err"]

\* no SaveManager resource was inserted
NoSaveManager == [save_path |-> "", disabled |-> FALSE, inserted |-> FALSE]

\* the file systems a session starts on
SessionFileSystems == [{SavePath} -> SessionFiles] \cup {NoDataDir}

\* app_impl.rs, after the Startup schedule (setup_camera, start_resource_loading,
\* setup_save_manager).chain(): start_resource_loading kept the scenario text
\* (or inserted BootError), setup_save_manager inserted the SaveManager, a
\* disabled one when SaveManager::new failed
StartupLib ==
    /\ loaded = NotLoaded
    /\ save_manager = (IF SaveManagerNew(fs).kind = "Ok" THEN SaveManagerNew(fs).value
                       ELSE new_disabled)
    /\ BootState

\* app.rs, after the Startup schedule (setup_camera, preload_resources,
\* setup_save_manager, transition_to_title).chain(): every step expects success,
\* a failure is a panic in Startup
StartupMain ==
    LET r == IF json_content.kind = "unreadable" THEN [kind |-> "Panic"]
             ELSE load_from_json(json_content, overflow_checks)
        opened == SaveManagerNew(fs)
        preloaded == r.kind = "Ok"
        ok == preloaded /\ opened.kind = "Ok"
    IN  /\ loaded = (IF preloaded THEN r ELSE NotLoaded)
        /\ save_manager = (IF ok THEN opened.value ELSE NoSaveManager)
        /\ app_state = "Boot"
        /\ next_state = (IF ok THEN Some("Title") ELSE None)
        /\ current = (IF preloaded THEN Some(CurrentDefault) ELSE None)
        /\ current_changed = preloaded
        /\ events = NoEvents
        /\ ui = NoUi
        /\ readiness = [scenario_loaded |-> FALSE, font_loaded |-> FALSE]
        /\ font_state = "Loading"
        /\ frame = [phase |-> IF ok THEN "StateTransition" ELSE "Startup", ran |-> {}]
        /\ panicked = ~ok

\* the session after the Startup schedule of either create_app
Init ==
    /\ overflow_checks \in BOOLEAN
    /\ entry \in {"main", "lib"}
    /\ json_content \in SessionScenarios
    /\ call = NoCall
    /\ prev_call = NoCall
    /\ fs \in SessionFileSystems
    /\ IF entry = "main" THEN StartupMain ELSE StartupLib

\* BootError(Some(..)) was inserted by start_resource_loading
BootError == json_content.kind = "unreadable"

\* the run conditions of the systems of Update
\* a faulty schedule whose auto_save_system is not gated on Playing
RunCondition_auto_save_ungated(sys) ==
    CASE sys = "check_resources_loaded" -> entry = "lib" /\ app_state = "Boot"
      [] sys = "title_button_system" -> app_state = "Title"
      [] sys = "playing_button_system" -> app_state = "Playing"
      [] sys = "ending_button_system" -> app_state = "Ending"
      [] sys = "handle_begin_or_continue" -> entry = "lib" /\ current.some
      [] sys = "handle_make_choice" -> entry = "lib" /\ current.some
      [] sys = "handle_restart" -> entry = "lib"
      [] sys = "game_event_system" -> entry = "main"
      [] sys = "auto_save_system" -> current.some

RunCondition(sys) ==
    CASE sys = "check_resources_loaded" -> entry = "lib" /\ app_state = "Boot"
      [] sys = "title_button_system" -> app_state = "Title"
      [] sys = "playing_button_system" -> app_state = "Playing"
      [] sys = "ending_button_system" -> app_state = "Ending"
      [] sys = "handle_begin_or_continue" -> entry = "lib" /\ current.some
      [] sys = "handle_make_choice" -> entry = "lib" /\ current.some
      [] sys = "handle_restart" -> entry = "lib"
      [] sys = "game_event_system" -> entry = "main"
      [] sys = "auto_save_system" -> app_state = "Playing"

\* A handler with nothing to read, whose sender does not run in this frame,
\* changes nothing whenever it runs: its run is left out.
HasWork(sys) ==
    CASE sys = "handle_begin_or_continue" ->
            app_state = "Title" \/ events.begin_new > 0 \/ events.continue > 0
      [] sys = "handle_make_choice" ->
            app_state = "Playing" \/ events.make_choice # <<>>
      [] sys = "handle_restart" -> app_state = "Ending" \/ events.restart > 0
      [] OTHER -> TRUE

Systems ==
    {"check_resources_loaded", "title_button_system", "playing_button_system",
     "ending_button_system", "handle_begin_or_continue", "handle_make_choice",
     "handle_restart", "game_event_system", "auto_save_system"}

Runs(sys) == RunCondition(sys) /\ HasWork(sys)

\* the system runs now: Update is under way and it did not run in this frame
Scheduled(sys) ==
    /\ ~panicked
    /\ frame.phase = "Update"
    /\ sys \notin frame.ran
    /\ Runs(sys)

Ran(sys) == frame' = [frame EXCEPT !.ran = @ \cup {sys}]

\* OnEnter(AppState::Title): cleanup_ui::<PlayingUI>, cleanup_ui::<EndingUI>,
\* setup_background_if_needed, start_rain_loop, setup_title_ui.  The systems
\* take Res<ScenarioData> and Res<GameFont>: a missing resource is a panic.
\* setup_title_ui of ui_impl.rs marks the Continue button Disabled when there
\* is no save; the one of ui.rs only greys it.
EnterTitle ==
    IF ~current.some
    THEN [panic |-> TRUE, ui |-> ui]
    ELSE [panic |-> FALSE,
          ui |-> [title |-> Some([continue_disabled |->
                                     entry = "lib" /\ ~has_save(save_manager, fs)]),
                  playing |-> None, ending |-> None]]

\* the node a screen shows: get_node_or_fallback in ui_impl.rs,
\* get_node(..).unwrap() in ui.rs
ScreenNode ==
    IF entry = "lib" THEN get_node_or_fallback(loaded.value, current.value.id)
    ELSE LET got == get_node(loaded.value, current.value.id)
         IN  IF got.some THEN [kind |-> "Ok", node |-> got.node] ELSE [kind |-> "Panic"]

\* OnEnter(AppState::Playing): cleanup_ui::<TitleUI>, cleanup_ui::<EndingUI>,
\* setup_playing_ui: the text and one ChoiceButton per choice of the node
EnterPlaying ==
    LET got == ScreenNode
    IN  IF got.kind = "Panic" THEN [panic |-> TRUE, ui |-> ui]
        ELSE [panic |-> FALSE,
              ui |-> [title |-> None, playing |-> Some(got.node), ending |-> None]]

\* OnEnter(AppState::Ending): cleanup_ui::<PlayingUI>, setup_ending_ui.  When the
\* node has no ending, the one of ui_impl.rs returns before spawning anything
\* and the one of ui.rs panics (node.ending.as_ref().unwrap()).
EnterEnding ==
    LET got == ScreenNode
    IN  IF got.kind = "Panic" \/ (entry = "main" /\ ~got.node.ending)
        THEN [panic |-> TRUE, ui |-> ui]
        ELSE [panic |-> FALSE,
              ui |-> [title |-> ui.title, playing |-> None,
                      ending |-> IF got.node.ending THEN Some(got.node) ELSE None]]

OnEnter(state) ==
    CASE state = "Title" -> EnterTitle
      [] state = "Playing" -> EnterPlaying
      [] state = "Ending" -> EnterEnding
      [] OTHER -> [panic |-> FALSE, ui |-> ui]

\* the StateTransition schedule: a pending NextState is applied; OnEnter runs
\* when the state really changes
StateTransition ==
    /\ ~panicked
    /\ frame.phase = "StateTransition"
    /\ IF next_state.some /\ next_state.value # app_state
       THEN LET entered == OnEnter(next_state.value)
            IN  /\ app_state' = next_state.value
                /\ ui' = entered.ui
                /\ panicked' = entered.panic
       ELSE UNCHANGED <<app_state, ui, panicked>>
    /\ next_state' = None
    /\ frame' = [phase |-> "Update", ran |-> {}]
    /\ UNCHANGED <<engineVars, callVars, saveVars, current, current_changed, events,
                   readiness, font_state>>

\* the asset server finishes loading the font, or fails
FontLoadEnds ==
    /\ ~panicked
    /\ entry = "lib"
    /\ font_state = "Loading"
    /\ font_state' \in {"Loaded", "Failed"}
    /\ UNCHANGED <<engineVars, callVars, saveVars, app_state, next_state, current,
                   current_changed, events, ui, readiness, frame, panicked>>

\* a faulty check that goes on with the font and to Title when the scenario
\* definition is rejected
CheckLoaded_ignores_load_error ==
    LET r == IF readiness.scenario_loaded THEN loaded
             ELSE load_from_json(json_content, overflow_checks)
        font_ok == readiness.font_loaded \/ font_state = "Loaded"
    IN  /\ loaded' = r
        /\ panicked' = (r.kind = "Panic")
        /\ IF r.kind = "Panic"
           THEN UNCHANGED <<readiness, next_state>>
           ELSE /\ readiness' = [scenario_loaded |-> TRUE, font_loaded |-> font_ok]
                /\ next_state' = IF font_ok THEN Some("Title") ELSE next_state

\* check_resources_loaded, once the scenario text is there: the scenario, then the font
CheckLoaded ==
    LET r == IF readiness.scenario_loaded THEN loaded
             ELSE load_from_json(json_content, overflow_checks)
        font_ok == readiness.font_loaded \/ font_state = "Loaded"
    IN  /\ loaded' = r
        /\ panicked' = (r.kind = "Panic")
        /\ IF r.kind # "Ok"
           THEN UNCHANGED <<readiness, next_state>>
           ELSE /\ readiness' = [scenario_loaded |-> TRUE, font_loaded |-> font_ok]
                /\ next_state' = IF font_ok THEN Some("Title") ELSE next_state

\* check_resources_loaded.run_if(in_state(AppState::Boot))
check_resources_loaded ==
    /\ Scheduled("check_resources_loaded")
    /\ IF BootError
       THEN /\ next_state' = Some("Title")
            /\ UNCHANGED <<loaded, readiness, panicked>>
       ELSE CheckLoaded
    /\ Ran("check_resources_loaded")
    /\ UNCHANGED <<overflow_checks, entry, json_content, callVars, saveVars, app_state, current,
                   current_changed, events, ui, font_state>>

\* what the player does to the buttons of the title screen in one frame
TitlePresses == {"none", "begin_new", "continue"}

\* title_button_system.run_if(in_state(AppState::Title)).  app_impl.rs: Begin New
\* sends BeginNewGame; Continue, unless spawned Disabled, sends ContinueGame when
\* has_save().  app.rs: a press of either button sends BeginNewGame, because a
\* BeginNewButton exists (!begin_button_query.is_empty()) whenever the title
\* screen does.
title_button_system ==
    /\ Scheduled("title_button_system")
    /\ \E press \in TitlePresses :
          /\ press # "none" => ui.title.some
          /\ events' =
                CASE press = "begin_new" -> [events EXCEPT !.begin_new = @ + 1]
                  [] press = "continue" /\ entry = "main" ->
                        [events EXCEPT !.begin_new = @ + 1]
                  [] press = "continue" /\ ~ui.title.value.continue_disabled
                        /\ has_save(save_manager, fs) -> [events EXCEPT !.continue = @ + 1]
                  [] OTHER -> events
    /\ Ran("title_button_system")
    /\ UNCHANGED <<engineVars, callVars, saveVars, app_state, next_state, current,
                   current_changed, ui, readiness, font_state, panicked>>

\* the ChoiceButtons on screen: one per choice of the node shown
ChoiceButtons == IF ui.playing.some THEN 0..(Len(ui.playing.value.choices) - 1) ELSE {}

\* playing_button_system.run_if(in_state(AppState::Playing)): a pressed
\* ChoiceButton sends MakeChoice with its index
playing_button_system ==
    /\ Scheduled("playing_button_system")
    /\ \/ UNCHANGED events
       \/ /\ Len(current.value.trail) < MaxTrail
          /\ \E i \in ChoiceButtons :
                events' = [events EXCEPT !.make_choice = Append(@, i)]
    /\ Ran("playing_button_system")
    /\ UNCHANGED <<engineVars, callVars, saveVars, app_state, next_state, current,
                   current_changed, ui, readiness, font_state, panicked>>

\* ending_button_system.run_if(in_state(AppState::Ending)): the RestartButton
\* sends RestartGame
ending_button_system ==
    /\ Scheduled("ending_button_system")
    /\ \/ UNCHANGED events
       \/ /\ ui.ending.some
          /\ events' = [events EXCEPT !.restart = @ + 1]
    /\ Ran("ending_button_system")
    /\ UNCHANGED <<engineVars, callVars, saveVars, app_state, next_state, current,
                   current_changed, ui, readiness, font_state, panicked>>

\* The log: the records of level warn and error that a run of a system emits.

\* SaveManager::load warns about a record of another version; it returns its
\* errors without logging them
load_log(mgr, files) ==
    IF mgr.disabled \/ ~exists(files, mgr.save_path) THEN {}
    ELSE LET parsed == deserialize(files[mgr.save_path])
         IN  IF parsed.kind = "Ok" /\ parsed.value.version # 1
             THEN {"warn: Save file version mismatch"} ELSE {}

\* the loop over ContinueGame: what load logs; the handler itself logs nothing
\* when load returns an error or no state (if let Ok(Some(..)) without else)
ContinueLog == IF events.continue > 0 THEN load_log(save_manager, fs) ELSE {}

\* auto_save_system logs the error of save
AutoSaveLog(result) == IF result.kind = "Err" THEN {"error: Failed to auto-save"} ELSE {}

\* what a system that runs now leaves in call: its name, the unread events, of
\* which it reads those of its types, and what it logs
Handled(sys, log) == [op |-> sys, read |-> events, log |-> log]

\* a faulty handle_begin_or_continue in which BeginNewGame resumes the saved
\* state when there is one
handle_begin_or_continue_resumes_save ==
    /\ Scheduled("handle_begin_or_continue")
    /\ LET begun == events.begin_new > 0
           got == load(save_manager, fs)
           continued == (events.continue > 0 \/ begun) /\ got.kind = "Ok" /\ got.some
       IN  /\ current' = IF continued THEN Some(got.value)
                         ELSE IF begun THEN Some(CurrentDefault) ELSE current
           /\ current_changed' = (current_changed \/ begun \/ continued)
           /\ next_state' = IF begun \/ continued THEN Some("Playing") ELSE next_state
    /\ events' = [events EXCEPT !.begin_new = 0, !.continue = 0]
    /\ Ran("handle_begin_or_continue")
    /\ call' = Handled("handle_begin_or_continue", ContinueLog)
    /\ UNCHANGED <<engineVars, prev_call, saveVars, app_state, ui, readiness, font_state,
                   panicked>>

\* a faulty handle_begin_or_continue in which a ContinueGame that loads nothing
\* starts a new game
handle_begin_or_continue_falls_back ==
    /\ Scheduled("handle_begin_or_continue")
    /\ LET begun == events.begin_new > 0 \/ events.continue > 0
           got == load(save_manager, fs)
           continued == events.continue > 0 /\ got.kind = "Ok" /\ got.some
       IN  /\ current' = IF continued THEN Some(got.value)
                         ELSE IF begun THEN Some(CurrentDefault) ELSE current
           /\ current_changed' = (current_changed \/ begun \/ continued)
           /\ next_state' = IF begun \/ continued THEN Some("Playing") ELSE next_state
    /\ events' = [events EXCEPT !.begin_new = 0, !.continue = 0]
    /\ Ran("handle_begin_or_continue")
    /\ call' = Handled("handle_begin_or_continue", ContinueLog)
    /\ UNCHANGED <<engineVars, prev_call, saveVars, app_state, ui, readiness, font_state,
                   panicked>>

\* a faulty handle_begin_or_continue that keeps the loaded id and trail but
\* takes the trail's length for the depth
handle_begin_or_continue_recounts_depth ==
    /\ Scheduled("handle_begin_or_continue")
    /\ LET begun == events.begin_new > 0
           got == load(save_manager, fs)
           continued == events.continue > 0 /\ got.kind = "Ok" /\ got.some
       IN  /\ current' = IF continued
                         THEN Some([got.value EXCEPT !.depth = Len(got.value.trail)])
                         ELSE IF begun THEN Some(CurrentDefault) ELSE current
           /\ current_changed' = (current_changed \/ begun \/ continued)
           /\ next_state' = IF begun \/ continued THEN Some("Playing") ELSE next_state
    /\ events' = [events EXCEPT !.begin_new = 0, !.continue = 0]
    /\ Ran("handle_begin_or_continue")
    /\ call' = Handled("handle_begin_or_continue", ContinueLog)
    /\ UNCHANGED <<engineVars, prev_call, saveVars, app_state, ui, readiness, font_state,
                   panicked>>

\* handle_begin_or_continue: every BeginNewGame, then every ContinueGame
handle_begin_or_continue ==
    /\ Scheduled("handle_begin_or_continue")
    /\ LET begun == events.begin_new > 0
           got == load(save_manager, fs)
           continued == events.continue > 0 /\ got.kind = "Ok" /\ got.some
       IN  /\ current' = IF continued THEN Some(got.value)
                         ELSE IF begun THEN Some(CurrentDefault) ELSE current
           /\ current_changed' = (current_changed \/ begun \/ continued)
           /\ next_state' = IF begun \/ continued THEN Some("Playing") ELSE next_state
    /\ events' = [events EXCEPT !.begin_new = 0, !.continue = 0]
    /\ Ran("handle_begin_or_continue")
    /\ call' = Handled("handle_begin_or_continue", ContinueLog)
    /\ UNCHANGED <<engineVars, prev_call, saveVars, app_state, ui, readiness, font_state,
                   panicked>>

\* a faulty loop that goes back to the root when a choice is rejected
RECURSIVE MakeChoices_reset_on_error(_, _, _)
MakeChoices_reset_on_error(queue, k, st) ==
    IF k > Len(queue) \/ st.panic THEN st
    ELSE LET r == transition(loaded.value, st.current, queue[k], overflow_checks)
         IN  CASE r.kind = "Panic" -> [st EXCEPT !.panic = TRUE]
               [] r.kind = "Err" ->
                    MakeChoices_reset_on_error(queue, k + 1,
                        [st EXCEPT !.current = CurrentDefault, !.changed = TRUE,
                                   !.log = @ \cup {"error: Failed to make choice"}])
               [] r.kind = "Ok" ->
                    MakeChoices_reset_on_error(queue, k + 1,
                        [current |-> r.value, changed |-> TRUE, panic |-> FALSE,
                         next |-> IF is_ending(loaded.value, r.value)
                                  THEN Some("Ending") ELSE st.next,
                         log |-> st.log])

\* the loop of handle_make_choice over the MakeChoice events read, from element k
RECURSIVE MakeChoices(_, _, _)
MakeChoices(queue, k, st) ==
    IF k > Len(queue) \/ st.panic THEN st
    ELSE LET r == transition(loaded.value, st.current, queue[k], overflow_checks)
         IN  CASE r.kind = "Panic" -> [st EXCEPT !.panic = TRUE]
               [] r.kind = "Err" ->
                    MakeChoices(queue, k + 1,
                        [st EXCEPT !.log = @ \cup {"error: Failed to make choice"}])
               [] r.kind = "Ok" ->
                    MakeChoices(queue, k + 1,
                        [current |-> r.value, changed |-> TRUE, panic |-> FALSE,
                         next |-> IF is_ending(loaded.value, r.value)
                                  THEN Some("Ending") ELSE st.next,
                         log |-> st.log])

\* handle_make_choice
handle_make_choice ==
    /\ Scheduled("handle_make_choice")
    /\ LET st == MakeChoices(events.make_choice, 1,
                     [current |-> current.value, changed |-> current_changed,
                      panic |-> FALSE, next |-> next_state, log |-> {}])
       IN  /\ current' = Some(st.current)
           /\ current_changed' = st.changed
           /\ next_state' = st.next
           /\ panicked' = st.panic
           /\ call' = Handled("handle_make_choice", st.log)
    /\ events' = [events EXCEPT !.make_choice = <<>>]
    /\ Ran("handle_make_choice")
    /\ UNCHANGED <<engineVars, prev_call, saveVars, app_state, ui, readiness, font_state>>

\* handle_restart
handle_restart ==
    /\ Scheduled("handle_restart")
    /\ next_state' = IF events.restart > 0 THEN Some("Title") ELSE next_state
    /\ events' = [events EXCEPT !.restart = 0]
    /\ Ran("handle_restart")
    /\ call' = Handled("handle_restart", {})
    /\ UNCHANGED <<engineVars, prev_call, saveVars, app_state, current, current_changed, ui,
                   readiness, font_state, panicked>>

\* game_event_system of app.rs: every BeginNewGame, every ContinueGame, every
\* MakeChoice, every RestartGame, in this order, in one system
game_event_system ==
    /\ Scheduled("game_event_system")
    /\ LET begun == events.begin_new > 0
           got == load(save_manager, fs)
           continued == events.continue > 0 /\ got.kind = "Ok" /\ got.some
           st == MakeChoices(events.make_choice, 1,
                     [current |-> IF continued THEN got.value
                                  ELSE IF begun THEN CurrentDefault ELSE current.value,
                      changed |-> (current_changed \/ begun \/ continued),
                      panic |-> FALSE,
                      next |-> IF begun \/ continued THEN Some("Playing") ELSE next_state,
                      log |-> ContinueLog])
       IN  /\ current' = Some(st.current)
           /\ current_changed' = st.changed
           /\ next_state' = IF events.restart > 0 /\ ~st.panic THEN Some("Title") ELSE st.next
           /\ panicked' = st.panic
           /\ call' = Handled("game_event_system", st.log)
    /\ events' = NoEvents
    /\ Ran("game_event_system")
    /\ UNCHANGED <<engineVars, prev_call, saveVars, app_state, ui, readiness, font_state>>

\* a faulty auto_save_system that saves every changed state, the root included
auto_save_system_any_depth ==
    /\ Scheduled("auto_save_system")
    /\ IF current_changed
       THEN \E io \in IoOutcomes :
               LET r == save(save_manager, current.value, fs, io)
               IN  /\ fs' = r.files
                   /\ call' = Handled("auto_save_system", AutoSaveLog(r.result))
       ELSE /\ UNCHANGED fs
            /\ call' = Handled("auto_save_system", {})
    /\ current_changed' = FALSE
    /\ Ran("auto_save_system")
    /\ UNCHANGED <<engineVars, prev_call, save_manager, app_state, next_state, current,
                   events, ui, readiness, font_state, panicked>>

\* a faulty auto_save_system that goes back to the root when the save fails
auto_save_system_rolls_back ==
    /\ Scheduled("auto_save_system")
    /\ IF current_changed /\ current.value.depth > 0
       THEN \E io \in IoOutcomes :
               LET r == save(save_manager, current.value, fs, io)
               IN  /\ fs' = r.files
                   /\ current' = IF r.result.kind = "Err" THEN Some(CurrentDefault)
                                 ELSE current
                   /\ call' = Handled("auto_save_system", AutoSaveLog(r.result))
       ELSE /\ UNCHANGED <<fs, current>>
            /\ call' = Handled("auto_save_system", {})
    /\ current_changed' = FALSE
    /\ Ran("auto_save_system")
    /\ UNCHANGED <<engineVars, prev_call, save_manager, app_state, next_state,
                   events, ui, readiness, font_state, panicked>>

\* auto_save_system.run_if(in_state(AppState::Playing)); an error of save is logged
auto_save_system ==
    /\ Scheduled("auto_save_system")
    /\ IF current_changed /\ current.value.depth > 0
       THEN \E io \in IoOutcomes :
               LET r == save(save_manager, current.value, fs, io)
               IN  /\ fs' = r.files
                   /\ call' = Handled("auto_save_system", AutoSaveLog(r.result))
       ELSE /\ UNCHANGED fs
            /\ call' = Handled("auto_save_system", {})
    /\ current_changed' = FALSE
    /\ Ran("auto_save_system")
    /\ UNCHANGED <<engineVars, prev_call, save_manager, app_state, next_state, current,
                   events, ui, readiness, font_state, panicked>>

\* the end of Update: every system that runs in this frame ran; the deferred
\* commands of check_resources_loaded insert ScenarioData and Current::default()
EndFrame ==
    /\ ~panicked
    /\ frame.phase = "Update"
    /\ \A sys \in Systems : Runs(sys) => sys \in frame.ran
    /\ IF readiness.scenario_loaded /\ ~current.some
       THEN current' = Some(CurrentDefault) /\ current_changed' = TRUE
       ELSE UNCHANGED <<current, current_changed>>
    /\ frame' = [phase |-> "StateTransition", ran |-> {}]
    /\ call' = NoCall
    /\ UNCHANGED <<engineVars, prev_call, saveVars, app_state, next_state, events, ui,
                   readiness, font_state, panicked>>

Next ==
    \/ StateTransition
    \/ FontLoadEnds
    \/ check_resources_loaded
    \/ title_button_system
    \/ playing_button_system
    \/ ending_button_system
    \/ handle_begin_or_continue
    \/ handle_make_choice
    \/ handle_restart
    \/ game_event_system
    \/ auto_save_system
    \/ EndFrame

Spec == Init /\ [][Next]_vars

(***************************************************************************)
(* Claims about scenario.rs, checked under SpecEngine                      *)
(***************************************************************************)
\* the ids the definition list defines, and the targets its choices name
DefinedIds(json) == {json.nodes[n].id : n \in 1..Len(json.nodes)}
TargetIds(json) ==
    UNION {{json.nodes[n].choices[c].to : c \in 1..Len(json.nodes[n].choices)} :
              n \in 1..Len(json.nodes)}

ValidChoiceCall ==
    /\ call.op = "transition"
    /\ call.current.id \in DOMAIN loaded.value.nodes
    /\ call.choice_index < Len(loaded.value.nodes[call.current.id].choices)

\* C2: for a state whose id resolves and an index within the node's choices,
\* transition returns id = the target, depth = length(target) - 1, and the
\* argument's trail with the target appended.
C2_TransitionResult ==
    ValidChoiceCall =>
        LET target == loaded.value.nodes[call.current.id].choices[call.choice_index + 1].to
        IN  /\ call.result.kind = "Ok"
            /\ call.result.value.id = target
            /\ call.result.value.depth = Len(target) - 1
            /\ call.result.value.trail = Append(call.current.trail, target)

\* C5: transition fails with InvalidChoiceIndex whenever the index is >= the
\* number of choices of the (resolving) current node.
C5_InvalidChoiceIndex ==
    (/\ call.op = "transition"
     /\ call.current.id \in DOMAIN loaded.value.nodes
     /\ call.choice_index >= Len(loaded.value.nodes[call.current.id].choices))
        => call.result = [kind |-> "Err", error |-> "InvalidChoiceIndex"]

\* C5 witness: index 5 at the root of the sample tree, which has two choices
C5_Witness ==
    /\ json_content = SampleScenario
    /\ call.op = "transition"
    /\ call.current.id = "R"
    /\ call.choice_index = 5
    /\ call.result.kind = "Err"

\* C6: transition fails with NodeNotFound, for every index, whenever the
\* state's id is no key of the store.
C6_NodeNotFound ==
    (/\ call.op = "transition"
     /\ call.current.id \notin DOMAIN loaded.value.nodes)
        => call.result = [kind |-> "Err", error |-> "NodeNotFound"]

\* C6 witness: a missing id with an index that would also be out of range anywhere
C6_Witness ==
    /\ json_content = SampleScenario
    /\ call.op = "transition"
    /\ call.current.id = "X"
    /\ call.choice_index = 5
    /\ call.result.kind = "Err"

\* C7: is_ending is true iff the state's depth equals meta.depth and its id
\* resolves to a node that carries an ending tag.
C7_IsEndingIff ==
    call.op = "is_ending" =>
        (call.result <=>
            /\ call.current.depth = json_content.meta.depth
            /\ call.current.id \in DOMAIN loaded.value.nodes
            /\ loaded.value.nodes[call.current.id].ending)

\* C7 witness: full depth, node present, no ending tag: not an ending
C7_Witness ==
    /\ json_content = FallbackScenario
    /\ call.op = "is_ending"
    /\ call.current.id = "R1"
    /\ call.current.depth = 2
    /\ call.result = FALSE

(***************************************************************************)
(* Claims about save.rs, checked under SpecSave                            *)
(***************************************************************************)
\* the case of C8: an enabled store, a save of a state with depth > 0 that
\* succeeded, and load called next
LoadAfterSave ==
    /\ ~save_manager.disabled
    /\ call.op = "load"
    /\ prev_call.op = "save"
    /\ prev_call.result.kind = "Ok"
    /\ prev_call.current.depth > 0

\* C8: in an enabled store a successful save of a state with depth > 0 followed
\* by load returns a state equal to the saved one in id, depth and trail.
C8_SaveLoadRoundTrip ==
    LoadAfterSave =>
        /\ call.result.kind = "Ok"
        /\ call.result.some
        /\ call.result.value.id = prev_call.current.id
        /\ call.result.value.depth = prev_call.current.depth
        /\ call.result.value.trail = prev_call.current.trail

\* C8 witness: the round trip of a state whose trail is not in tree order
C8_Witness ==
    /\ LoadAfterSave
    /\ prev_call.current = [id |-> "R1", depth |-> 2, trail |-> <<"R1", "R">>]

\* the file of the enabled store is a JSON object whose version is an integer other than 1
ForeignVersionOnDisk ==
    /\ ~save_manager.disabled
    /\ fs[SavePath].kind = "object"
    /\ "version" \in DOMAIN fs[SavePath].fields
    /\ fs[SavePath].fields["version"].t = "num"
    /\ fs[SavePath].fields["version"].n # 1

C10_DisabledStore ==
    /\ [](save_manager.disabled =>
            /\ call.op = "save" => call.result = [kind |-> "Ok"]
            /\ call.op = "load" => call.result = NoSave
            /\ call.op = "has_save" => call.result = FALSE)
    /\ [][save_manager.disabled => fs' = fs]_vars

\* C10 witness: a disabled store, has_save after a save, with a file on disk
C10_Witness ==
    /\ save_manager.disabled
    /\ prev_call.op = "save"
    /\ call.op = "has_save"
    /\ call.result = FALSE
    /\ fs[SavePath].kind = "object"

(***************************************************************************)
(* Claims about the session, checked under Spec                            *)
(***************************************************************************)
\* C3: in every reachable session state the traversal state satisfies
\* depth = length(id) - 1 (after begin_new, after every successful transition,
\* after a continue that loads a record of version 1).
C3_DepthDerivedFromId ==
    current.some => current.value.depth = Len(current.value.id) - 1

\* setup_save_manager ran: always in app_impl.rs; in app.rs only when
\* preload_resources, which is chained before it, did not panic
SetupSaveManagerRan ==
    \/ entry = "lib"
    \/ /\ json_content.kind # "unreadable"
       /\ load_from_json(json_content, overflow_checks).kind = "Ok"

\* the persistence store could not be opened at startup
StoreOpenFailed == SetupSaveManagerRan /\ SaveManagerNew(fs).kind = "Err"

\* C11: if the persistence store cannot be opened at startup, the session does
\* not abort in Startup and a disabled store is installed.
C11_StoreFailureDegrades ==
    StoreOpenFailed => (save_manager = new_disabled /\ ~(panicked /\ frame.phase = "Startup"))

(***************************************************************************)
(* FairSpec: the session while the process lives.  The runner calls        *)
(* app.update() again and again, and the executor runs every system that   *)
(* is scheduled in a frame: some step of Next is always taken.  Nothing is *)
(* assumed about the player.                                               *)
(***************************************************************************)
FairSpec == Spec /\ WF_vars(Next)

\* a changed traversal state with depth > 0 that auto_save_system has not seen
\* yet, in an enabled store, while the session state is Playing
ChangePending ==
    /\ ~panicked
    /\ ~save_manager.disabled
    /\ app_state = "Playing"
    /\ current.some
    /\ current_changed
    /\ current.value.depth > 0

\* C12: every change of the traversal state to a state with depth > 0 made
\* during Playing is handed to save by auto_save_system (which then writes the
\* record), whatever the order of the systems within the frame.
C12_AutoSaveCoversEveryChange == ChangePending ~> (~current_changed \/ panicked)

\* C13: the record is only ever written for a state with depth > 0, and a store
\* without a record gets its first one only for a state that a choice produced
\* (the trail holds the root and at least one more id): the fresh root state is
\* never persisted.
C13_RootNeverPersisted ==
    [][fs' # fs =>
          /\ current.some
          /\ current.value.depth > 0
          /\ ~has_save(save_manager, fs) => Len(current.value.trail) >= 2]_vars

\* C13 witness: after begin_new, auto_save_system ran on the root state in
\* Playing and the enabled store still has no record
C13_Witness ==
    /\ app_state = "Playing"
    /\ current = Some(CurrentDefault)
    /\ ~current_changed
    /\ "auto_save_system" \in frame.ran
    /\ ~save_manager.disabled
    /\ ~has_save(save_manager, fs)

\* the step in which system sys runs
Step(sys) == sys \notin frame.ran /\ frame'.phase = "Update" /\ sys \in frame'.ran

\* the step in which the BeginNewGame and ContinueGame events are read
BeginOrContinueStep == Step("handle_begin_or_continue") \/ Step("game_event_system")

\* a continue intent is among the events read and load yields a state
ContinueLoads ==
    /\ events.continue > 0
    /\ load(save_manager, fs).kind = "Ok"
    /\ load(save_manager, fs).some

\* the same run goes on to process an intent that overrides what begin_new set:
\* a continue that loads a state, or, in game_event_system, a choice or a restart
OverriddenInSameRun ==
    \/ ContinueLoads
    \/ entry = "main" /\ (events.make_choice # <<>> \/ events.restart > 0)

\* C14: processing a begin_new intent sets the traversal state to the default
\* (id "R", depth 0, trail <<"R">>) and requests Playing, whatever the traversal
\* state was and whether or not a save exists.
C14_BeginNewResets ==
    [][(BeginOrContinueStep /\ events.begin_new > 0 /\ ~OverriddenInSameRun) =>
          /\ current' = Some(CurrentDefault)
          /\ current_changed'
          /\ next_state' = Some("Playing")]_vars

\* C14 witness: begin_new was processed while a loadable record of another
\* state is on disk
C14_Witness ==
    /\ call.op = "handle_begin_or_continue"
    /\ call.read.begin_new > 0
    /\ call.read.continue = 0
    /\ load(save_manager, fs).kind = "Ok"
    /\ load(save_manager, fs).some
    /\ current = Some(CurrentDefault)
    /\ next_state = Some("Playing")

\* C15: processing a continue intent when load yields no state (no record, a
\* disabled store, another version, an unreadable record) changes neither the
\* traversal state nor the session state nor the pending transition, and does
\* not panic: the intent is dropped.
C15_ContinueWithoutStateIsDropped ==
    [][(/\ BeginOrContinueStep
        /\ events.continue > 0
        /\ ~ContinueLoads
        /\ events.begin_new = 0
        /\ entry = "main" => (events.make_choice = <<>> /\ events.restart = 0)) =>
          /\ current' = current
          /\ current_changed' = current_changed
          /\ app_state' = app_state
          /\ next_state' = next_state
          /\ ~panicked'
          /\ fs' = fs]_vars

\* C15 witness: on Title a continue intent was read while the record on disk
\* is one load gives no state for, and the session stays on Title
C15_Witness ==
    /\ call.op = "handle_begin_or_continue"
    /\ call.read.continue > 0
    /\ call.read.begin_new = 0
    /\ has_save(save_manager, fs)
    /\ ~(load(save_manager, fs).kind = "Ok" /\ load(save_manager, fs).some)
    /\ app_state = "Title"
    /\ next_state = None
    /\ ~panicked

\* C16: a continue intent is issued only while has_save() is true; and when the
\* handler reads one and load returns a state, Current becomes exactly the
\* persisted (id, depth, trail) and Playing is requested.
C16_ContinueLoadsRecord ==
    [][/\ events'.continue > events.continue => has_save(save_manager, fs)
       /\ (/\ BeginOrContinueStep
           /\ ContinueLoads
           /\ entry = "main" => (events.make_choice = <<>> /\ events.restart = 0)) =>
             /\ current' = Some(load(save_manager, fs).value)
             /\ current_changed'
             /\ next_state' = Some("Playing")]_vars

\* C16 witness: a continue intent was read and Current is the record on disk,
\* field by field, also where the record's depth does not fit its id
C16_Witness ==
    /\ call.op = "handle_begin_or_continue"
    /\ call.read.continue > 0
    /\ fs[SavePath] = SaveObject(JNum(1), JStr("R1"), JNum(0), JArr(<<JStr("R")>>))
    /\ current = Some([id |-> "R1", depth |-> 0, trail |-> <<"R">>])
    /\ next_state = Some("Playing")

\* the step in which the MakeChoice events are read
ChoiceStep == Step("handle_make_choice") \/ Step("game_event_system")

\* game_event_system reads no event of another type in this run
OnlyChoicesRead ==
    entry = "main" => (events.begin_new = 0 /\ events.continue = 0 /\ events.restart = 0)

\* C17: after a run of the choice handler during Playing in which a choice
\* succeeded (Current was replaced), Ending is requested if and only if
\* is_ending holds for the new traversal state; otherwise the session stays in
\* Playing with the new state.
C17_EndingIffIsEnding ==
    [][(/\ ChoiceStep
        /\ app_state = "Playing"
        /\ OnlyChoicesRead
        /\ ~panicked'
        /\ current' # current) =>
          /\ next_state' = Some("Ending") <=> is_ending(loaded.value, current'.value)
          /\ next_state' # Some("Ending") => next_state' = next_state]_vars

\* every MakeChoice event read in this run is rejected by transition
AllChoicesRejected ==
    /\ events.make_choice # <<>>
    /\ \A k \in 1..Len(events.make_choice) :
          transition(loaded.value, current.value, events.make_choice[k],
                     overflow_checks).kind = "Err"

\* C18: a choice intent whose transition fails (NodeNotFound or
\* InvalidChoiceIndex) leaves the traversal state, its change flag, the session
\* state, the pending transition and the persisted record unchanged.
C18_RejectedChoiceChangesNothing ==
    [][(ChoiceStep /\ OnlyChoicesRead /\ AllChoicesRejected) =>
          /\ current' = current
          /\ current_changed' = current_changed
          /\ app_state' = app_state
          /\ next_state' = next_state
          /\ ~panicked'
          /\ fs' = fs]_vars

\* C18 witness: during Playing the handler read a choice that transition
\* rejects for the traversal state
C18_Witness ==
    /\ call.op \in {"handle_make_choice", "game_event_system"}
    /\ Len(call.read.make_choice) = 1
    /\ app_state = "Playing"
    /\ next_state = None
    /\ transition(loaded.value, current.value, call.read.make_choice[1],
                  overflow_checks).kind = "Err"

\* the step in which the RestartGame events are read
RestartStep == Step("handle_restart") \/ Step("game_event_system")

\* load returns exactly the traversal state of the session
RecordIsCurrent ==
    load(save_manager, fs) = [kind |-> "Ok", some |-> TRUE, value |-> current.value]

\* C19: a restart intent processed in Ending requests Title and writes nothing,
\* and what it leaves behind for a following continue is the record of the
\* finished playthrough: in an enabled store the ending state (depth > 0) is
\* the record on disk, or at least auto_save_system ran on it (the write itself
\* may have failed).
C19_RestartKeepsFinishedRecord ==
    [][(/\ RestartStep
        /\ events.restart > 0
        /\ app_state = "Ending"
        /\ entry = "main" =>
              (events.begin_new = 0 /\ events.continue = 0 /\ events.make_choice = <<>>)) =>
          /\ next_state' = Some("Title")
          /\ fs' = fs
          /\ current' = current
          /\ (~save_manager.disabled /\ current.value.depth > 0) =>
                (RecordIsCurrent \/ ~current_changed)]_vars

\* the session rests between two frames: nothing is pending
AtRest ==
    /\ ~panicked
    /\ frame.phase = "Update"
    /\ frame.ran = {}
    /\ next_state = None
    /\ events = NoEvents

\* a traversal state a session of this definition writes: Current::default
\* followed by transitions, the depth taken from the id
WalkState(cur) ==
    /\ Len(cur.trail) > 0
    /\ cur.trail[1] = "R"
    /\ cur.trail[Len(cur.trail)] = cur.id
    /\ cur.depth = Len(cur.id) - 1
    /\ \A k \in 1..(Len(cur.trail) - 1) :
          LET got == get_node(loaded.value, cur.trail[k])
          IN  got.some /\ \E c \in 1..Len(got.node.choices) :
                              got.node.choices[c].to = cur.trail[k + 1]

\* the screen offers an intent that its handler accepts: the buttons of Title,
\* a ChoiceButton whose transition succeeds, the RestartButton
ProgressIntent ==
    CASE app_state = "Title" -> ui.title.some
      [] app_state = "Playing" ->
            \E i \in ChoiceButtons :
               transition(loaded.value, current.value, i, overflow_checks).kind = "Ok"
      [] app_state = "Ending" -> ui.ending.some
      [] OTHER -> FALSE

\* C20: no session state after boot is terminal.  Already for the sample tree:
\* whenever the session rests in Title, Playing or Ending on a traversal state
\* that a session writes, the screen offers an intent that makes progress.
C20_NoTerminalState ==
    (/\ AtRest
     /\ json_content = SampleScenario
     /\ app_state \in {"Title", "Playing", "Ending"}
     /\ current.some /\ WalkState(current.value)) => ProgressIntent

(***************************************************************************)
(* Claims about boot, the save store and the traversal, C21..C30           *)
(***************************************************************************)
\* every flag of ResourceReadiness is true (the rain_bgm feature is off)
all_ready == readiness.scenario_loaded /\ readiness.font_loaded

\* C21: under the create_app that keeps readiness flags (app_impl.rs), the
\* session leaves Boot for Title only when every readiness flag is true.
C21_BootLeavesWhenReady ==
    [][(entry = "lib" /\ app_state = "Boot" /\ app_state' = "Title") => all_ready]_vars

\* the definition cannot be read, parsed or validated
DefinitionRejected ==
    json_content.kind = "unreadable"
    \/ load_from_json(json_content, overflow_checks).kind # "Ok"

\* C22: when the scenario definition cannot be read, parsed or validated, the
\* session never reaches Playing and neither a node store nor a traversal
\* state is installed.
C22_RejectedDefinitionNeverPlays ==
    DefinitionRejected =>
        (app_state # "Playing" /\ loaded.kind # "Ok" /\ ~current.some)

\* check_resources_loaded ran on a definition that load_from_json rejects
C22_Witness ==
    /\ entry = "lib"
    /\ json_content = InvalidReferenceScenario
    /\ "check_resources_loaded" \in frame.ran
    /\ loaded.kind = "Err"
    /\ app_state = "Boot"

\* the definition list has a node with this id
Defines(json, id) == \E n \in 1..Len(json.nodes) : json.nodes[n].id = id

\* C23: get_node_or_fallback(id) returns a node of the definition with exactly
\* that id when there is one; otherwise one with id "R" when there is one;
\* otherwise the first node of the definition list; it aborts exactly when the
\* definition has no nodes.
C23_FallbackPolicy ==
    (call.op = "get_node_or_fallback") =>
        LET nodes == json_content.nodes
            r == call.result
            FromList(id) == \E n \in 1..Len(nodes) : nodes[n] = r.node /\ r.node.id = id
        IN  /\ (r.kind = "Panic") <=> (Len(nodes) = 0)
            /\ r.kind = "Ok" =>
                  CASE Defines(json_content, call.id) -> FromList(call.id)
                    [] Defines(json_content, "R") -> FromList("R")
                    [] OTHER -> r.node = nodes[1]

\* a lookup of an id that is not defined, in a definition without "R" whose
\* first node is not its only one
C23_Witness ==
    /\ call.op = "get_node_or_fallback"
    /\ ~Defines(json_content, call.id)
    /\ ~Defines(json_content, "R")
    /\ Len(json_content.nodes) = 2
    /\ json_content.nodes[1] # json_content.nodes[2]
    /\ call.result.kind = "Ok"

\* has_save was called on an enabled store
HasSaveCalled == ~save_manager.disabled /\ call.op = "has_save"

\* C24: in an enabled store has_save is true exactly when the file of the
\* record exists, whatever it contains: true after a successful save, false
\* after a successful delete.
C24_HasSaveIsExistence ==
    HasSaveCalled =>
        /\ call.result = (fs[SavePath].kind # "absent")
        /\ (prev_call.op = "save" /\ prev_call.result.kind = "Ok") => call.result = TRUE
        /\ (prev_call.op = "delete" /\ prev_call.result.kind = "Ok") => call.result = FALSE

\* has_save is true right after load returned 'no save' for a record of
\* another version
C24_Witness ==
    /\ HasSaveCalled
    /\ call.result = TRUE
    /\ prev_call.op = "load"
    /\ prev_call.result = NoSave
    /\ ForeignVersionOnDisk

\* the definition with the ending tags given by tags (one Boolean per node)
Retag(json, tags) ==
    [json EXCEPT !.nodes = [n \in 1..Len(json.nodes) |->
                               [json.nodes[n] EXCEPT !.ending = tags[n]]]]

\* the outcome of load with every ending tag erased from the store
EraseTags(r) ==
    IF r.kind # "Ok" THEN r
    ELSE [r EXCEPT !.value.nodes = [id \in DOMAIN r.value.nodes |->
                                       [r.value.nodes[id] EXCEPT !.ending = FALSE]],
                   !.value.scenario.nodes = [n \in 1..Len(r.value.scenario.nodes) |->
                                       [r.value.scenario.nodes[n] EXCEPT !.ending = FALSE]]]

\* C25: ending-coverage validation never changes the outcome of load: a
\* definition that differs from the loaded one only in which nodes carry an
\* ending tag loads with the same outcome and, tags aside, the same store.
C25_EndingTagsDoNotAffectLoad ==
    (loaded # NotLoaded /\ call = NoCall /\ json_content.kind = "scenario") =>
        \A tags \in [1..Len(json_content.nodes) -> BOOLEAN] :
            EraseTags(load_from_json(Retag(json_content, tags), overflow_checks))
               = EraseTags(loaded)

\* a definition without any ending tag was loaded, and the validation of the
\* endings had something to warn about
C25_Witness ==
    /\ json_content = FallbackScenario
    /\ loaded.kind = "Ok"
    /\ validate_endings(loaded.value, overflow_checks).warned
    /\ \A n \in 1..Len(json_content.nodes) : ~json_content.nodes[n].ending

\* the step of auto_save_system in which save is called and does not leave the
\* record of the traversal state on disk: the write failed
AutoSaveFails ==
    /\ Step("auto_save_system")
    /\ current_changed
    /\ current.value.depth > 0
    /\ ~save_manager.disabled
    /\ fs' # save(save_manager, current.value, fs, "done").files

\* C26: a failed auto-save neither rolls back nor blocks play: the traversal
\* state, the session state and its pending transition, and the unread intents
\* are what they were, and the session goes on.
C26_FailedAutoSaveKeepsPlay ==
    [][AutoSaveFails =>
          /\ current' = current
          /\ app_state' = app_state
          /\ next_state' = next_state
          /\ events' = events
          /\ ~panicked']_vars

\* after a choice R -> R1 the auto-save ran and failed: the record on disk is
\* not the traversal state, which is the new one
C26_Witness ==
    /\ app_state = "Playing"
    /\ "auto_save_system" \in frame.ran
    /\ ~current_changed
    /\ ~save_manager.disabled
    /\ current = Some([id |-> "R1", depth |-> 1, trail |-> <<"R", "R1">>])
    /\ ~RecordIsCurrent
    /\ ~panicked

\* the last call but one was a delete that succeeded
AfterDelete == prev_call.op = "delete" /\ prev_call.result.kind = "Ok"

\* C27: after a successful delete has_save is false and load returns 'no
\* save'; a delete that finds no record succeeds and changes no file.
C27_DeleteRemovesRecord ==
    /\ [](AfterDelete =>
            /\ call.op = "has_save" => call.result = FALSE
            /\ call.op = "load" => call.result = NoSave)
    /\ [][(call'.op = "delete" /\ prev_call' = call
              /\ ~exists(fs, save_manager.save_path)) =>
             (call'.result = [kind |-> "Ok"] /\ fs' = fs)]_vars

\* load right after a successful delete on an enabled store
C27_Witness ==
    /\ AfterDelete
    /\ ~save_manager.disabled
    /\ call.op = "load"
    /\ call.result = NoSave
    /\ fs[SavePath] = Absent

\* the trail starts at the root and ends at the current id
RootedTrail(cur) ==
    /\ Len(cur.trail) > 0
    /\ cur.trail[1] = "R"
    /\ cur.trail[Len(cur.trail)] = cur.id

\* C28: the trail of a session started by begin_new is root-inclusive and
\* append-only.  begin_new starts it as <<"R">> with the current id "R"; a run
\* of the choice handler on such a trail keeps every element it had, appends
\* one element per choice at most, exactly the new id for a choice that
\* succeeds and nothing for one that fails, and leaves it ending at the
\* current id.
C28_TrailAppendOnly ==
    [][/\ (BeginOrContinueStep /\ events.begin_new > 0 /\ ~OverriddenInSameRun) =>
             (current'.value.trail = <<"R">> /\ RootedTrail(current'.value))
       /\ (ChoiceStep /\ OnlyChoicesRead /\ ~panicked' /\ RootedTrail(current.value)) =>
             LET old == current.value.trail
                 new == current'.value.trail
                 read == events.make_choice
             IN  /\ RootedTrail(current'.value)
                 /\ Len(new) >= Len(old)
                 /\ SubSeq(new, 1, Len(old)) = old
                 /\ Len(new) <= Len(old) + Len(read)
                 /\ Len(read) = 1 =>
                       LET r == transition(loaded.value, current.value, read[1],
                                           overflow_checks)
                       IN  /\ r.kind = "Ok" => new = Append(old, current'.value.id)
                           /\ r.kind = "Err" => new = old]_vars

\* the second successful choice of a session: the handler read one choice and
\* the trail is the one of the first choice with the new id appended
C28_Witness ==
    /\ call.op \in {"handle_make_choice", "game_event_system"}
    /\ call.read.make_choice = <<0>>
    /\ json_content = SampleScenario
    /\ current = Some([id |-> "R11", depth |-> 2, trail |-> <<"R", "R1", "R11">>])

\* the scenario passed load and contains the node "R"
LoadedWithRoot == loaded.kind = "Ok" /\ "R" \in DOMAIN loaded.value.nodes

\* the id of the traversal state is a key of the node store
Resolves(cur) == cur.id \in DOMAIN loaded.value.nodes

\* C29: for a scenario that passed load and contains "R", the current id of a
\* session started by begin_new and driven by choices always resolves to a
\* node of the store.  Where no continue is ever issued (app.rs) this holds in
\* every state; in general begin_new yields an id that resolves, and a run of
\* the choice handler on an id that resolves yields one that resolves and for
\* which transition does not answer NodeNotFound.
C29_CurrentIdResolves ==
    /\ []((entry = "main" /\ LoadedWithRoot /\ current.some /\ ~panicked) =>
             Resolves(current.value))
    /\ [][/\ (LoadedWithRoot /\ BeginOrContinueStep /\ events.begin_new > 0
                 /\ ~ContinueLoads /\ ~panicked') => Resolves(current'.value)
          /\ (LoadedWithRoot /\ ChoiceStep /\ OnlyChoicesRead /\ ~panicked'
                 /\ Resolves(current.value)) =>
                /\ Resolves(current'.value)
                /\ \A i \in 0..2 :
                      LET r == transition(loaded.value, current'.value, i, overflow_checks)
                      IN  r.kind = "Err" => r.error # "NodeNotFound"]_vars

\* a choice was processed from a node whose choices lead back up the tree: the
\* id reached is not the one the identifier scheme would give, and it resolves
C29_Witness ==
    /\ LoadedWithRoot
    /\ json_content = EndingWithChoicesScenario
    /\ call.op \in {"handle_make_choice", "game_event_system"}
    /\ call.read.make_choice = <<0>>
    /\ current = Some([id |-> "R", depth |-> 0, trail |-> <<"R", "R0", "R">>])

\* C30: every absorbed error leaves a log record: a run of the choice handler
\* that rejects a choice logs it, a failed auto-save is logged, a continue that
\* finds a record of another version logs the mismatch, and a continue whose
\* load fails or returns no state logs something about it.
C30_AbsorbedErrorsAreLogged ==
    [][/\ (ChoiceStep /\ OnlyChoicesRead /\ AllChoicesRejected /\ ~panicked') =>
             "error: Failed to make choice" \in call'.log
       /\ AutoSaveFails => "error: Failed to auto-save" \in call'.log
       /\ (BeginOrContinueStep /\ events.continue > 0 /\ ForeignVersionOnDisk) =>
             "warn: Save file version mismatch" \in call'.log
       /\ (BeginOrContinueStep /\ events.continue > 0 /\ ~ContinueLoads) =>
             call'.log \ {"error: Failed to make choice"} # {}]_vars

(***************************************************************************)
(* Claims about ordering, presentation and the identifier scheme, C31..C38 *)
(***************************************************************************)
\* intents that a handler which has not run yet in this frame will still read
BeginOrContinuePending ==
    /\ events.begin_new > 0 \/ events.continue > 0
    /\ "handle_begin_or_continue" \notin frame.ran
    /\ "game_event_system" \notin frame.ran

ChoicePending ==
    /\ events.make_choice # <<>>
    /\ "handle_make_choice" \notin frame.ran
    /\ "game_event_system" \notin frame.ran

\* C31: the intents of one tick are processed begin_new and continue first,
\* then choices, then restart: no choice is processed while a begin_new or
\* continue of the same tick is still to be processed, and no restart while a
\* begin_new, continue or choice is.
C31_IntentOrderIsDeterministic ==
    [][/\ (Step("handle_make_choice") /\ events.make_choice # <<>>) =>
             ~BeginOrContinuePending
       /\ (Step("handle_restart") /\ events.restart > 0) =>
             (~BeginOrContinuePending /\ ~ChoicePending)]_vars

\* C32: the presentation follows the traversal state: whenever the session
\* rests in Playing on an id that resolves, the screen shows the node with the
\* current id, its text and one choice button per choice of that node.
C32_PresentationFollowsCurrent ==
    (AtRest /\ app_state = "Playing" /\ loaded.kind = "Ok" /\ current.some
        /\ Resolves(current.value)) =>
        ui.playing = Some(loaded.value.nodes[current.value.id])

\* the strings of n characters over '0' and '1'
RECURSIVE BinaryStrings(_)
BinaryStrings(n) ==
    IF n = 0 THEN {""} ELSE {str \o d : str \in BinaryStrings(n - 1), d \in {"0", "1"}}

\* the canonical leaf ids of a tree of depth d
CanonicalLeafIds(d) == {"R" \o str : str \in BinaryStrings(d)}

\* the id resolves to a node of the store that carries an ending tag
ResolvesToEnding(id) == id \in DOMAIN loaded.value.nodes /\ loaded.value.nodes[id].ending

LastDefinition(json, id) ==
    CHOOSE n \in 1..Len(json.nodes) :
        /\ json.nodes[n].id = id
        /\ \A m \in (n + 1)..Len(json.nodes) : json.nodes[m].id # id

\* C34: load builds a store with one entry per distinct id of the definition
\* list, in which get_node(id) returns the last node listed with that id.
C34_DuplicateIdsLastWins ==
    (loaded # NotLoaded /\ loaded.kind = "Ok") =>
        /\ DOMAIN loaded.value.nodes = DefinedIds(json_content)
        /\ \A id \in DefinedIds(json_content) :
              get_node(loaded.value, id) =
                 [some |-> TRUE,
                  node |-> json_content.nodes[LastDefinition(json_content, id)]]

\* a definition that lists "R" twice with different content was loaded
C34_Witness ==
    /\ loaded # NotLoaded
    /\ loaded.kind = "Ok"
    /\ Len(json_content.nodes) = 2
    /\ json_content.nodes[1].id = "R"
    /\ json_content.nodes[2].id = "R"
    /\ json_content.nodes[1] # json_content.nodes[2]
    /\ get_node(loaded.value, "R").node = json_content.nodes[2]

\* the definition follows the identifier scheme: every choice target is the
\* source id extended by one symbol, every node above depth D has two choices,
\* every node of depth D is a leaf with an ending tag
FollowsScheme(json) ==
    /\ json.kind = "scenario"
    /\ Defines(json, "R")
    /\ \A n \in 1..Len(json.nodes) :
          LET node == json.nodes[n]
          IN  /\ \A c \in 1..Len(node.choices) :
                     node.choices[c].to \in {node.id \o "0", node.id \o "1"}
              /\ Len(node.id) - 1 < json.meta.depth => Len(node.choices) = 2
              /\ Len(node.id) - 1 = json.meta.depth =>
                     (Len(node.choices) = 0 /\ node.ending)
              /\ Len(node.id) - 1 <= json.meta.depth

\* the trail is a walk from the root along choices that ends at the current id
ChoiceWalk(cur) ==
    /\ RootedTrail(cur)
    /\ \A k \in 1..(Len(cur.trail) - 1) :
          LET got == get_node(loaded.value, cur.trail[k])
          IN  got.some /\ \E c \in 1..Len(got.node.choices) :
                              got.node.choices[c].to = cur.trail[k + 1]

\* the depth is the number of successful choices since begin_new: the trail
\* holds the root and one element per successful choice (C28)
DepthCountsChoices(cur) == cur.depth = Len(cur.trail) - 1

\* C35: in a scenario that follows the identifier scheme the depth of a
\* session started by begin_new is the number of successful choices made, and
\* Ending is requested exactly by the choice that makes it D.  Where no
\* continue is ever issued (app.rs) the count holds in every state; in general a
\* run of the choice handler on a walk from the root preserves it.
C35_DepthCountsChoices ==
    /\ []((entry = "main" /\ loaded.kind = "Ok" /\ FollowsScheme(json_content)
              /\ current.some /\ ~panicked) =>
             (DepthCountsChoices(current.value) /\ ChoiceWalk(current.value)))
    /\ [][(/\ loaded.kind = "Ok"
           /\ FollowsScheme(json_content)
           /\ ChoiceStep
           /\ OnlyChoicesRead
           /\ ChoiceWalk(current.value)
           /\ DepthCountsChoices(current.value)) =>
             /\ ~panicked'
             /\ ChoiceWalk(current'.value)
             /\ DepthCountsChoices(current'.value)
             /\ current'.value.depth <= json_content.meta.depth
             /\ next_state' = Some("Ending") <=>
                   (current' # current /\ current'.value.depth = json_content.meta.depth)]_vars

\* the second successful choice of a session on the sample tree (D = 2): depth
\* 2, and Ending is requested
C35_Witness ==
    /\ FollowsScheme(json_content)
    /\ json_content.meta.depth = 2
    /\ call.op \in {"handle_make_choice", "game_event_system"}
    /\ call.read.make_choice = <<1>>
    /\ current = Some([id |-> "R10", depth |-> 2, trail |-> <<"R", "R1", "R10">>])
    /\ next_state = Some("Ending")

\* C36: whenever the session state is Ending, the current traversal state
\* satisfies is_ending
C36_EndingStateIsEnding ==
    (app_state = "Ending" /\ ~panicked) =>
        /\ loaded.kind = "Ok"
        /\ current.some
        /\ is_ending(loaded.value, current.value)

\* C37: the persisted record is written only by auto_save_system while the
\* session state is Playing, and every record written has version 1 and
\* depth > 0 (a write that fails half way leaves no record); begin_new,
\* continue, choices, restart and every step in Boot, Title or Ending leave the
\* files as they are.
C37_OnlyAutoSaveWrites ==
    [][fs' # fs =>
          /\ Step("auto_save_system")
          /\ app_state = "Playing"
          /\ current_changed
          /\ LET written == deserialize(fs'[SavePath])
             IN  \/ /\ written.kind = "Ok"
                    /\ written.value.version = 1
                    /\ written.value.depth > 0
                    /\ call'.log = {}
                 \/ /\ fs'[SavePath] = Garbage
                    /\ call'.log # {}]_vars

\* C37 witness: auto_save_system wrote the record of the state that the first
\* choice of a session produced (no record of the inputs holds this state)
C37_Witness ==
    /\ app_state = "Playing"
    /\ call.op = "auto_save_system"
    /\ call.log = {}
    /\ ~current_changed
    /\ current = Some([id |-> "R0", depth |-> 1, trail |-> <<"R", "R0">>])
    /\ fs[SavePath] = serialize([version |-> 1, current |-> "R0", depth |-> 1,
                                 trail |-> <<"R", "R0">>])

\* C38: on a store that passed load, transition returns a new state or an
\* error for every state and every choice_index, it never aborts, and the
\* subtraction length(target) - 1 never underflows.
C38_TransitionIsTotal ==
    (loaded.kind = "Ok" /\ call.op = "transition") =>
        /\ call.result.kind \in {"Ok", "Err"}
        /\ call.result.kind = "Ok" => Len(call.result.value.id) >= 1

====
